---- MODULE Spec2Model ----
(***************************************************************************)
(* Server-status classification (src/src/ui/utils/alert_rules.py,          *)
(* class AlertSystem, and src/src/ui/utils/alert_analyzer.py, function     *)
(* analyze_server_alerts) and anomaly detection                            *)
(* (src/src/app/anomaly_detector.py, class AnomalyDetector).               *)
(*                                                                         *)
(* Numbers.  Metric samples are integers (percent).  A mean is carried as  *)
(* the exact fraction [num, den]; den = 0 is pandas' NaN (mean of an empty *)
(* selection).  A time_percentage is carried in whole percent (0.2 -> 20). *)
(* A DataFrame is [nrows, columns]: columns maps each metric column that   *)
(* is present to its sequence of nrows samples; the 'timestamp' column is  *)
(* <<1, ..., nrows>>.  Arithmetic is exact: a quotient, a mean or a        *)
(* standard deviation is compared as the real number it stands for, not as *)
(* the binary floating-point value numpy rounds it to.                     *)
(***************************************************************************)
EXTENDS Integers, Sequences, FiniteSets, TLC

VARIABLES
    rules,                  \* AlertSystem.rules
    alerts_history,         \* AlertSystem.alerts_history
    network_capacity_mbps,  \* AlertSystem.network_capacity_mbps
    server_data,            \* the caller's DataFrame
    analysis,               \* what analyze_server_status returned last
    alerts_analysis,        \* what analyze_server_alerts returned last
    history_view,           \* what get_alerts_history returned last
    returned_alerts,        \* the alerts analyze_server_status has returned so far
    callers,                \* the concurrent analyze_server_status calls in progress
    thresholds,             \* AnomalyDetector.thresholds
    batch,                  \* the caller's arguments to detect_anomalies
    anomalies,              \* what detect_anomalies returned last
    realtime,               \* the caller's arguments to detect_realtime_anomaly
    realtime_anomaly        \* what detect_realtime_anomaly returned last

vars == <<rules, alerts_history, network_capacity_mbps, server_data, analysis,
          alerts_analysis, history_view, returned_alerts, callers,
          thresholds, batch, anomalies, realtime, realtime_anomaly>>

alert_vars == <<rules, alerts_history, network_capacity_mbps, server_data, analysis,
                alerts_analysis, history_view, returned_alerts, callers>>

detector_vars == <<thresholds, batch, anomalies, realtime, realtime_anomaly>>

(***************************************************************************)
(* Bounds of the model.                                                    *)
(***************************************************************************)
MaxRows == 5

MaxHistory == 12

MaxLen == 4

MaxHist == 11

MaxSeries == 12

\* No call has been made yet.
NoResult == [status |-> "none"]

\* No concurrent call is in progress.
NoCallers == <<>>

(***************************************************************************)
(* Sequence helpers (pandas / numpy reductions).                           *)
(***************************************************************************)
RECURSIVE SeqSum(_)
SeqSum(s) == IF s = <<>> THEN 0 ELSE Head(s) + SeqSum(Tail(s))

RECURSIVE SeqSumSq(_)
SeqSumSq(s) == IF s = <<>> THEN 0 ELSE Head(s) * Head(s) + SeqSumSq(Tail(s))

\* Series.mean(): den = 0 stands for NaN.
Mean(s) == [num |-> SeqSum(s), den |-> Len(s)]

Abs(x) == IF x < 0 THEN -x ELSE x

(***************************************************************************)
(* alert_rules.py                                                          *)
(***************************************************************************)
CPU == "cpu.usage.average"

MEM == "mem.usage.average"

NET == "net.usage.average"

ServerStatus == {"overloaded", "underloaded", "normal", "unknown"}

AlertSeverity == {"critical", "warning", "info"}

AlertRule(name, metric, condition, thr, severity, time_percentage) ==
    [name |-> name, metric |-> metric, condition |-> condition, thresholds |-> thr,
     severity |-> severity, time_percentage |-> time_percentage]

get_default_rules ==
    << AlertRule("high_cpu_usage", CPU, "gt", [high |-> 85], "critical", 20),
       AlertRule("high_memory_usage", MEM, "gt", [high |-> 80], "critical", 20),
       AlertRule("low_cpu_usage", CPU, "lt", [low |-> 15], "warning", 80),
       AlertRule("low_memory_usage", MEM, "lt", [low |-> 25], "warning", 80),
       AlertRule("low_network_usage", NET, "lt", [low |-> 5], "warning", 80),
       AlertRule("normal_cpu_range", CPU, "range", [low |-> 15, high |-> 85], "info", 100),
       AlertRule("normal_memory_range", MEM, "range", [low |-> 25, high |-> 85], "info", 100),
       AlertRule("normal_network_range", NET, "range", [low |-> 6, high |-> 85], "info", 100) >>

\* DataFrame.empty
Empty(data) == data.nrows = 0

\* `metric in server_data.columns`
HasColumn(data, metric) == metric \in DOMAIN data.columns

\* (metric_data > t).sum()
CountGt(col, t) == Cardinality({i \in 1..Len(col) : col[i] > t})

\* (metric_data < t).sum()
CountLt(col, t) == Cardinality({i \in 1..Len(col) : col[i] < t})

\* CountInRange with both ends of the range left out.
CountInRangeOpen(col, lo, hi) ==
    Cardinality({i \in 1..Len(col) : col[i] > lo /\ col[i] < hi})

\* ((metric_data >= lo) & (metric_data <= hi)).sum()
CountInRange(col, lo, hi) ==
    Cardinality({i \in 1..Len(col) : col[i] >= lo /\ col[i] <= hi})

\* RequiredIntervals asking for one interval more.
RequiredIntervalsPlusOne(total, time_percentage) == (total * time_percentage) \div 100 + 1

\* int(total_intervals * rule.time_percentage)
RequiredIntervals(total, time_percentage) == (total * time_percentage) \div 100

\* Alert(rule, value, timestamp = server_data['timestamp'].iloc[-1], server, message)
Alert(rule, value, data, server_name) ==
    [rule |-> rule, value |-> value, timestamp |-> data.nrows, server |-> server_name,
     message |-> <<rule.name, value, rule.thresholds>>]

\* Alert.to_dict
to_dict(a) ==
    [server |-> a.server, rule |-> a.rule.name, value |-> a.value,
     threshold |-> a.rule.thresholds, severity |-> a.rule.severity,
     timestamp |-> a.timestamp, message |-> a.message]

\* One pass of the rule loop: the alerts (none or one) rule adds.
RuleAlerts(rule, data, server_name) ==
    IF ~HasColumn(data, rule.metric) THEN <<>>
    ELSE
      LET metric_data == data.columns[rule.metric]
          total_intervals == Len(metric_data)
          required_intervals == RequiredIntervals(total_intervals, rule.time_percentage)
          Above(v) == v > rule.thresholds.high
          Below(v) == v < rule.thresholds.low
      IN  CASE rule.condition = "gt" ->
                 IF CountGt(metric_data, rule.thresholds.high) >= required_intervals
                 THEN << Alert(rule, Mean(SelectSeq(metric_data, Above)), data, server_name) >>
                 ELSE <<>>
            [] rule.condition = "lt" ->
                 IF CountLt(metric_data, rule.thresholds.low) >= required_intervals
                 THEN << Alert(rule, Mean(SelectSeq(metric_data, Below)), data, server_name) >>
                 ELSE <<>>
            [] rule.condition = "range" ->
                 LET in_range_count ==
                       CountInRange(metric_data, rule.thresholds.low, rule.thresholds.high)
                 IN  IF rule.severity = "info" /\ in_range_count = total_intervals
                     THEN << Alert(rule, Mean(metric_data), data, server_name) >>
                     ELSE IF rule.severity # "info" /\ in_range_count >= required_intervals
                     THEN << Alert(rule, Mean(metric_data), data, server_name) >>
                     ELSE <<>>
            \* 'percentile_gt': carried by no rule of _get_default_rules
            [] OTHER -> <<>>

\* CheckRules leaving the loop at the first rule whose metric is absent.
RECURSIVE CheckRulesBreaking(_, _, _)
CheckRulesBreaking(rs, data, server_name) ==
    IF rs = <<>> \/ ~HasColumn(data, Head(rs).metric) THEN <<>>
    ELSE RuleAlerts(Head(rs), data, server_name)
            \o CheckRulesBreaking(Tail(rs), data, server_name)

\* The rule loop, in rule order.
RECURSIVE CheckRules(_, _, _)
CheckRules(rs, data, server_name) ==
    IF rs = <<>> THEN <<>>
    ELSE RuleAlerts(Head(rs), data, server_name) \o CheckRules(Tail(rs), data, server_name)

\* overload_criteria: (metric, threshold, time_percentage)
overload_criteria == << <<CPU, 85, 20>>, <<MEM, 80, 20>> >>

\* underload_criteria: (metric, threshold, time_percentage)
underload_criteria == << <<CPU, 15, 80>>, <<MEM, 25, 80>>, <<NET, 5, 80>> >>

\* OverloadHit with the boundary let in: exactly 20% passes.
OverloadHitAtBoundary(data, c) ==
    /\ HasColumn(data, c[1])
    /\ 100 * CountGt(data.columns[c[1]], c[2]) >= c[3] * Len(data.columns[c[1]])

\* exceeding_count / total_count > time_percentage
OverloadHit(data, c) ==
    /\ HasColumn(data, c[1])
    /\ 100 * CountGt(data.columns[c[1]], c[2]) > c[3] * Len(data.columns[c[1]])

\* UnderloadMiss with the boundary on the wrong side: exactly 80% no longer passes.
UnderloadMissAtBoundary(data, c) ==
    /\ HasColumn(data, c[1])
    /\ 100 * CountLt(data.columns[c[1]], c[2]) <= c[3] * Len(data.columns[c[1]])

\* below_count / total_count < time_percentage
UnderloadMiss(data, c) ==
    /\ HasColumn(data, c[1])
    /\ 100 * CountLt(data.columns[c[1]], c[2]) < c[3] * Len(data.columns[c[1]])

\* all_underloaded after the loop over underload_criteria
AllUnderloaded(data) ==
    \A k \in 1..Len(underload_criteria) : ~UnderloadMiss(data, underload_criteria[k])

\* determine_server_status reading the alerts instead of the frame.
determine_server_status_from_alerts(alerts, data) ==
    IF \E k \in 1..Len(alerts) : alerts[k].rule.severity = "critical" THEN "overloaded"
    ELSE IF Cardinality({k \in 1..Len(alerts) : alerts[k].rule.severity = "warning"}) >= 3
    THEN "underloaded"
    ELSE "normal"

\* AlertSystem._determine_server_status: the alerts argument is not read.
determine_server_status(alerts, data) ==
    IF \E k \in 1..Len(overload_criteria) : OverloadHit(data, overload_criteria[k])
    THEN "overloaded"
    ELSE IF AllUnderloaded(data) THEN "underloaded"
    ELSE "normal"

\* The value analyze_server_status returns (metrics_summary, a read-only digest of
\* the frame, is not carried).
AnalysisOf(rs, data, server_name) ==
    IF Empty(data) THEN [status |-> "unknown", alerts |-> <<>>]
    ELSE LET alerts == CheckRules(rs, data, server_name)
         IN  [status |-> determine_server_status(alerts, data), alerts |-> alerts]

\* Appended with every entry stored twice.
AppendedTwice(history, alerts) ==
    history \o [i \in 1..(2 * Len(alerts)) |-> to_dict(alerts[(i + 1) \div 2])]

\* for alert in alerts: self.alerts_history.append(alert.to_dict())
Appended(history, alerts) == history \o [i \in 1..Len(alerts) |-> to_dict(alerts[i])]

\* AppendOne as a read of the list followed by a write of its last slot.
AppendOneOverwriting(history, entry) ==
    IF history = <<>> THEN << entry >> ELSE [history EXCEPT ![Len(history)] = entry]

\* self.alerts_history.append(alert.to_dict()): one list.append, atomic in CPython.
AppendOne(history, entry) == Append(history, entry)

ServerName == "server-1"

\* A Python slice s[start:]: a negative start counts from the end, and -0 is 0.
SliceFrom(s, start) ==
    LET first == IF start < 0
                 THEN (IF Len(s) + start > 0 THEN Len(s) + start ELSE 0)
                 ELSE (IF start < Len(s) THEN start ELSE Len(s))
    IN  SubSeq(s, first + 1, Len(s))

\* AlertSystem.get_alerts_history: pd.DataFrame(self.alerts_history[-limit:]), one
\* row per entry, in order.
get_alerts_history(history, limit) == SliceFrom(history, 0 - limit)

\* for key, value in kwargs.items(): if hasattr(rule, key): setattr(rule, key, value)
\* (the attributes are the fields carried here; 'description' is not carried).
WithAttributes(rule, kwargs) ==
    [key \in DOMAIN rule |-> IF key \in DOMAIN kwargs THEN kwargs[key] ELSE rule[key]]

\* AlertSystem.update_rule: the first rule of that name is updated, then `break`.
RECURSIVE update_rule(_, _, _)
update_rule(rs, rule_name, kwargs) ==
    IF rs = <<>> THEN <<>>
    ELSE IF Head(rs).name = rule_name
         THEN << WithAttributes(Head(rs), kwargs) >> \o Tail(rs)
         ELSE << Head(rs) >> \o update_rule(Tail(rs), rule_name, kwargs)

(***************************************************************************)
(* The caller's data: frames of up to MaxRows rows in which each of the    *)
(* three metric columns is absent or present; a present column is drawn    *)
(* in non-decreasing order from the values below, which sit on and on both *)
(* sides of the thresholds 85 / 15 (cpu), 80 / 25 (memory), 5 / 6..85      *)
(* (network).                                                              *)
(***************************************************************************)
\* A column of the frame to build: absent, or present with its samples.
Absent == [present |-> FALSE, samples |-> <<>>]

MetricValues(metric) ==
    CASE metric = CPU -> {10, 85, 90}
      [] metric = MEM -> {10, 25, 90}
      [] metric = NET -> {1, 5, 50}

SortedSeqs(S, n) ==
    {s \in [1..n -> S] : \A i \in 1..(n - 1) : s[i] <= s[i + 1]}

ColumnChoices(metric, n) ==
    {Absent} \cup {[present |-> TRUE, samples |-> s] : s \in SortedSeqs(MetricValues(metric), n)}

DataFrame(n, c, m, t) ==
    LET choice == [k \in {CPU, MEM, NET} |-> IF k = CPU THEN c ELSE IF k = MEM THEN m ELSE t]
    IN  [nrows |-> n,
         columns |-> [k \in {x \in {CPU, MEM, NET} : choice[x].present} |-> choice[k].samples]]

\* server_data is one of these frames.
LoadedFrame ==
    \E n \in 0..MaxRows :
        \E c \in ColumnChoices(CPU, n), m \in ColumnChoices(MEM, n), t \in ColumnChoices(NET, n) :
            server_data = DataFrame(n, c, m, t)

(***************************************************************************)
(* anomaly_detector.py                                                     *)
(*                                                                         *)
(* Values are integers (percent).  A z-score is carried by its exact       *)
(* square [num, den] (z*z = num/den).  A score is [num, den, sqrt]: the    *)
(* number num/den, or its square root when sqrt is TRUE.  An optional      *)
(* argument is [given |-> FALSE] for None, else [given |-> TRUE, value].   *)
(***************************************************************************)
DefaultMetric == "cpu.usage.average"

\* AnomalyDetector.__init__: self.thresholds
DefaultThresholds ==
    [m \in {"cpu.usage.average", "memory.usage.average"} |->
        IF m = "cpu.usage.average"
        THEN [z_score_threshold |-> 3, rate_of_change_threshold |-> 20, critical_level |-> 80]
        ELSE [z_score_threshold |-> 3, rate_of_change_threshold |-> 15, critical_level |-> 90]]

\* ThresholdsFor falling back to the memory profile.
ThresholdsForMemoryFallback(table, metric) ==
    IF metric \in DOMAIN table THEN table[metric] ELSE table["memory.usage.average"]

\* self.thresholds.get(metric, self.thresholds['cpu.usage.average'])
ThresholdsFor(table, metric) ==
    IF metric \in DOMAIN table THEN table[metric] ELSE table[DefaultMetric]

\* The 1.0 literal.
One == [num |-> 1, den |-> 1, sqrt |-> FALSE]

\* Capped without the cap: min(x, 1.0) replaced by x.
Uncapped(num, den, sqrt) == [num |-> num, den |-> den, sqrt |-> sqrt]

\* min(x, 1.0) for x = num/den (or its square root), den > 0
Capped(num, den, sqrt) ==
    IF num >= den THEN One ELSE [num |-> num, den |-> den, sqrt |-> sqrt]

\* (abs(x - np.mean(w)) / np.std(w)) squared; np.std(w) squared is
\* (n * sum(w*w) - sum(w)^2) / n^2, so den > 0 is std > 0.
ZScoreSq(x, w) ==
    [num |-> (Len(w) * x - SeqSum(w)) * (Len(w) * x - SeqSum(w)),
     den |-> Len(w) * SeqSumSq(w) - SeqSum(w) * SeqSum(w)]

\* std > 0
StdPositive(w) == ZScoreSq(0, w).den > 0

\* z_score > threshold (threshold >= 0)
ZExceeds(z2, threshold) == z2.num > threshold * threshold * z2.den

\* get_severity testing 'medium' before 'high'.
get_severity_medium_first(z2) ==
    IF z2.num >= 16 * z2.den THEN "critical"
    ELSE IF z2.num >= 4 * z2.den THEN "medium"
    ELSE IF z2.num >= 9 * z2.den THEN "high"
    ELSE "low"

\* AnomalyDetector._get_severity
get_severity(z2) ==
    IF z2.num >= 16 * z2.den THEN "critical"
    ELSE IF z2.num >= 9 * z2.den THEN "high"
    ELSE IF z2.num >= 4 * z2.den THEN "medium"
    ELSE "low"

\* min(z_score / 5.0, 1.0)
ZScoreScore(z2) == Capped(z2.num, 25 * z2.den, TRUE)

\* relative_error = (error / predicted) * 100, as a fraction; predicted > 0
RelativeError(actual, predicted) == [num |-> 100 * Abs(actual - predicted), den |-> predicted]

\* relative_error > pct
RelExceeds(rel, pct) == rel.num > pct * rel.den

\* Window without window_start: every preceding sample.
WindowFromStart(actual_values, i) == SubSeq(actual_values, 1, i)

\* actual_values[window_start:i] with window_start = max(0, i - 10); i is 0-based
Window(actual_values, i) ==
    SubSeq(actual_values, (IF i - 10 > 0 THEN i - 10 ELSE 0) + 1, i)

\* Step 1 of the loop body: the critical-level record.
CriticalRecord(timestamp, actual, predicted, metric) ==
    [timestamp |-> timestamp, actual |-> actual, predicted |-> predicted,
     anomaly_score |-> One, severity |-> "critical", type |-> "critical_level",
     message |-> <<"Critical", metric, actual>>]

\* Step 2 of the loop body: the z-score records (none or one); i is 0-based.
ZScoreRecords(i, timestamp, actual, predicted, actual_values, th) ==
    IF i > 0 /\ Len(Window(actual_values, i)) >= 3 /\ StdPositive(Window(actual_values, i))
    THEN LET z_score == ZScoreSq(actual, Window(actual_values, i))
         IN  IF ZExceeds(z_score, th.z_score_threshold)
             THEN << [timestamp |-> timestamp, actual |-> actual, predicted |-> predicted,
                      anomaly_score |-> ZScoreScore(z_score),
                      severity |-> get_severity(z_score), type |-> "z_score",
                      message |-> <<"Statistical anomaly: z-score", z_score>>] >>
             ELSE <<>>
    ELSE <<>>

\* PredictionRecords guarded by predicted != 0 in place of predicted > 0.
PredictionRecordsAnySign(timestamp, actual, predicted) ==
    IF predicted # 0 /\ RelExceeds(RelativeError(actual, predicted), 30)
    THEN LET relative_error == RelativeError(actual, predicted)
         IN  << [timestamp |-> timestamp, actual |-> actual, predicted |-> predicted,
                 anomaly_score |-> Capped(relative_error.num, 100 * relative_error.den, FALSE),
                 severity |-> IF RelExceeds(relative_error, 50) THEN "high" ELSE "medium",
                 type |-> "prediction_error",
                 message |-> <<"Prediction error", relative_error>>] >>
    ELSE <<>>

\* Step 3 of the loop body: the prediction-error records (none or one).
PredictionRecords(timestamp, actual, predicted) ==
    IF predicted > 0 /\ RelExceeds(RelativeError(actual, predicted), 30)
    THEN LET relative_error == RelativeError(actual, predicted)
         IN  << [timestamp |-> timestamp, actual |-> actual, predicted |-> predicted,
                 anomaly_score |-> Capped(relative_error.num, 100 * relative_error.den, FALSE),
                 severity |-> IF RelExceeds(relative_error, 50) THEN "high" ELSE "medium",
                 type |-> "prediction_error",
                 message |-> <<"Prediction error", relative_error>>] >>
    ELSE <<>>

\* RateRecords measured against the nearest preceding sample below the critical level
\* (against the sample itself when there is none).
RateRecordsSkippingCritical(i, timestamp, actual, predicted, actual_values, th) ==
    LET calm == {k \in 1..i : actual_values[k] < th.critical_level}
        previous == IF calm = {} THEN actual
                    ELSE actual_values[CHOOSE k \in calm : \A l \in calm : l <= k]
    IN  IF i > 0 /\ Abs(actual - previous) > th.rate_of_change_threshold
        THEN LET rate_of_change == Abs(actual - previous)
             IN  << [timestamp |-> timestamp, actual |-> actual, predicted |-> predicted,
                     anomaly_score |-> Capped(rate_of_change, 50, FALSE),
                     severity |-> IF rate_of_change > 30 THEN "high" ELSE "medium",
                     type |-> "rate_of_change",
                     message |-> <<"Rapid change", rate_of_change>>] >>
        ELSE <<>>

\* Step 4 of the loop body: the rate-of-change records (none or one); i is 0-based.
RateRecords(i, timestamp, actual, predicted, actual_values, th) ==
    IF i > 0 /\ Abs(actual - actual_values[i]) > th.rate_of_change_threshold
    THEN LET rate_of_change == Abs(actual - actual_values[i])
         IN  << [timestamp |-> timestamp, actual |-> actual, predicted |-> predicted,
                 anomaly_score |-> Capped(rate_of_change, 50, FALSE),
                 severity |-> IF rate_of_change > 30 THEN "high" ELSE "medium",
                 type |-> "rate_of_change",
                 message |-> <<"Rapid change", rate_of_change>>] >>
    ELSE <<>>

\* The loop body without the `continue` after the critical record.
RecordsAtNoContinue(i, actual_values, predicted_values, timestamps, metric, th) ==
    LET actual == actual_values[i + 1]
        predicted == predicted_values[i + 1]
        timestamp == timestamps[i + 1]
    IN  (IF actual >= th.critical_level
         THEN << CriticalRecord(timestamp, actual, predicted, metric) >> ELSE <<>>)
        \o ZScoreRecords(i, timestamp, actual, predicted, actual_values, th)
        \o PredictionRecords(timestamp, actual, predicted)
        \o RateRecords(i, timestamp, actual, predicted, actual_values, th)

\* The loop body for 0-based index i: what it appends to anomalies.
RecordsAt(i, actual_values, predicted_values, timestamps, metric, th) ==
    LET actual == actual_values[i + 1]
        predicted == predicted_values[i + 1]
        timestamp == timestamps[i + 1]
    IN  IF actual >= th.critical_level
        THEN << CriticalRecord(timestamp, actual, predicted, metric) >>
        ELSE ZScoreRecords(i, timestamp, actual, predicted, actual_values, th)
             \o PredictionRecords(timestamp, actual, predicted)
             \o RateRecords(i, timestamp, actual, predicted, actual_values, th)

\* The loop `for i in range(len(actual_values))` from index i on.
RECURSIVE DetectLoop(_, _, _, _, _, _)
DetectLoop(i, actual_values, predicted_values, timestamps, metric, th) ==
    IF i >= Len(actual_values) THEN <<>>
    ELSE RecordsAt(i, actual_values, predicted_values, timestamps, metric, th)
         \o DetectLoop(i + 1, actual_values, predicted_values, timestamps, metric, th)

Returned(value) == [status |-> "returned", value |-> value]

Raised(error) == [status |-> "raised", error |-> error]

\* len(actual_values) != len(predicted_values)
LengthMismatch(actual_values, predicted_values) ==
    Len(actual_values) # Len(predicted_values)

\* AnomalyDetector.detect_anomalies: timestamps[i] raises IndexError on the first
\* index past the end of timestamps, and the local list is lost with it.
detect_anomalies(table, actual_values, predicted_values, timestamps, metric) ==
    IF LengthMismatch(actual_values, predicted_values) THEN Returned(<<>>)
    ELSE IF Len(timestamps) < Len(actual_values) THEN Raised("IndexError")
    ELSE Returned(DetectLoop(0, actual_values, predicted_values, timestamps, metric,
                             ThresholdsFor(table, metric)))

None == [type |-> "none"]

\* The history-length guard one short: len(historical_values) < 9.
InsufficientHistoryOffByOne(historical_values) == Len(historical_values) < 9

\* len(historical_values) < 10
InsufficientHistory(historical_values) == Len(historical_values) < 10

\* The prediction check of detect_realtime_anomaly.
RealtimePrediction(current_value, predicted_value) ==
    IF predicted_value.given
       /\ predicted_value.value > 0
       /\ RelExceeds(RelativeError(current_value, predicted_value.value), 30)
    THEN LET relative_error == RelativeError(current_value, predicted_value.value)
         IN  [severity |-> IF RelExceeds(relative_error, 50) THEN "high" ELSE "medium",
              type |-> "prediction_error",
              message |-> <<"Prediction error", relative_error>>,
              score |-> Capped(relative_error.num, 100 * relative_error.den, FALSE)]
    ELSE None

\* The z-score check of current_value against the mean and std of values.
StatisticalCheck(current_value, values, th) ==
    IF StdPositive(values) /\ ZExceeds(ZScoreSq(current_value, values), th.z_score_threshold)
    THEN [severity |-> get_severity(ZScoreSq(current_value, values)),
          type |-> "statistical",
          message |-> <<"Statistical anomaly: z-score", ZScoreSq(current_value, values)>>,
          score |-> ZScoreScore(ZScoreSq(current_value, values))]
    ELSE None

\* The statistical check over a trailing 10-point window, as in the batch loop.
RealtimeStatisticalTrailing(current_value, historical_values, th) ==
    StatisticalCheck(current_value, Window(historical_values, Len(historical_values)), th)

\* The statistical check of detect_realtime_anomaly: mean and std of the whole history.
RealtimeStatistical(current_value, historical_values, th) ==
    StatisticalCheck(current_value, historical_values, th)

\* AnomalyDetector.detect_realtime_anomaly
detect_realtime_anomaly(table, current_value, historical_values, predicted_value, metric) ==
    LET th == ThresholdsFor(table, metric)
    IN  IF InsufficientHistory(historical_values) THEN None
        ELSE IF current_value >= th.critical_level
        THEN [severity |-> "critical", type |-> "critical_level",
              message |-> <<"Critical", metric, current_value>>, score |-> One]
        ELSE IF RealtimeStatistical(current_value, historical_values, th) # None
        THEN RealtimeStatistical(current_value, historical_values, th)
        ELSE RealtimePrediction(current_value, predicted_value)

(***************************************************************************)
(* The caller's arguments.                                                 *)
(***************************************************************************)
DetectorMetrics == {"cpu.usage.average", "memory.usage.average", "disk.latency"}

ActualValues == {10, 11, 12, 40, 85}

PredictedValues == {-10, 0, 10, 30}

HistoryValues == {10, 12, 50}

CurrentValues == {10, 12, 13, 50, 85, 95}

\* n copies of v
Repeat(v, n) == [i \in 1..n |-> v]

\* Lengths one below, equal to and one above n.
Around(n) == {k \in {n - 1, n, n + 1} : k >= 0}

BatchOf(a, p, np, nt, m) ==
    [actual_values |-> a, predicted_values |-> Repeat(p, np),
     timestamps |-> [i \in 1..nt |-> i], metric |-> m]

NoValue == [given |-> FALSE]

\* The caller holds no arguments for detect_anomalies / for detect_realtime_anomaly /
\* no frame: the call is not made.
IdleBatch == [loaded |-> FALSE]

IdleRealtime == [arguments |-> FALSE]

NoFrame == [frame |-> FALSE]

\* Values of the longer series: two levels close to each other and one far from both,
\* at a distance between the rate_of_change_threshold of the two profiles (15 and 20).
LevelValues == {10, 12, 28}

\* k times a, then b up to the last but one position, then c: n values in all.
Levels(a, b, c, k, n) == [i \in 1..n |-> IF i <= k THEN a ELSE IF i < n THEN b ELSE c]

\* batch holds a series of up to MaxLen actual values, a constant predicted series
\* and timestamps 1, 2, ..., each of them as long as the actual series or one off;
\* or a series of up to MaxSeries values on at most three levels, longer than the
\* 10-sample window, with predicted series and timestamps of its length.
BatchArguments ==
    \/ \E n \in 0..MaxLen :
          \E a \in [1..n -> ActualValues], p \in PredictedValues, np \in Around(n),
             nt \in Around(n), m \in DetectorMetrics :
              batch = BatchOf(a, p, np, nt, m)
    \/ \E n \in 0..MaxSeries :
          \E a \in LevelValues, b \in LevelValues, c \in LevelValues, k \in 0..n,
             p \in PredictedValues, m \in DetectorMetrics :
              batch = BatchOf(Levels(a, b, c, k, n), p, n, n, m)

\* realtime holds a history of up to MaxHist values (k times one value, then another
\* value), a current value and an optional predicted value.
RealtimeArguments ==
    \E n \in 0..MaxHist :
        \E a \in HistoryValues, b \in HistoryValues, k \in 0..n, c \in CurrentValues,
           p \in {NoValue} \cup {[given |-> TRUE, value |-> v] : v \in PredictedValues},
           m \in DetectorMetrics :
            realtime = [current_value |-> c,
                        historical_values |-> Repeat(a, k) \o Repeat(b, n - k),
                        predicted_value |-> p, metric |-> m]

(***************************************************************************)
(* alert_analyzer.py                                                       *)
(*                                                                         *)
(* analyze_server_alerts reads the columns cpu_usage, memory_usage and     *)
(* network_in_mbps.  A series of the prepared frame is [scale, samples]:   *)
(* its i-th value is samples[i] / scale, so that                           *)
(* network_in_mbps / network_capacity * 100 is carried exactly.  The       *)
(* column disk_latency, which the function fills with random numbers when  *)
(* the caller's frame lacks it, is an argument here.  cpu_ready_summation  *)
(* and disk_usage are read by no rule and are not carried.                 *)
(***************************************************************************)
CPU_USAGE == "cpu_usage"

MEMORY_USAGE == "memory_usage"

NETWORK_IN == "network_in_mbps"

default_thresholds ==
    [cpu_overload |-> 85, memory_overload |-> 80, cpu_ready_overload |-> 10,
     cpu_idle |-> 15, memory_idle |-> 25, network_idle |-> 5,
     cpu_normal_min |-> 15, cpu_normal_max |-> 85,
     memory_normal_min |-> 25, memory_normal_max |-> 85,
     network_normal_min |-> 6, network_normal_max |-> 85,
     disk_latency |-> 25, network_capacity |-> 1000]

\* time_percent_overload = 0.2, time_percent_idle = 0.8, in whole percent
time_percent_overload == 20

time_percent_idle == 80

\* A column taken as it is.
Plain(samples) == [scale |-> 1, samples |-> samples]

\* (data['network_in_mbps'] / th['network_capacity']) * 100
NetworkUsagePercent(samples, th) ==
    [scale |-> th.network_capacity, samples |-> [i \in 1..Len(samples) |-> 100 * samples[i]]]

\* data = server_data.copy() with disk_latency and network_usage_percent added
Prepared(data, th, disk_latency) ==
    [nrows |-> data.nrows,
     columns |->
        [k \in DOMAIN data.columns \cup {"disk_latency", "network_usage_percent"} |->
            CASE k = "network_usage_percent" ->
                    NetworkUsagePercent(data.columns[NETWORK_IN], th)
              [] k = "disk_latency" /\ k \notin DOMAIN data.columns -> Plain(disk_latency)
              [] OTHER -> Plain(data.columns[k])]]

\* metric_data[selection].mean() of a series
SeriesMean(selected, scale) == [num |-> SeqSum(selected), den |-> scale * Len(selected)]

\* alert_analyzer.Alert
AnalyzerAlert(metric_name, value, threshold, severity, data, server_name) ==
    [metric_name |-> metric_name, value |-> value, threshold |-> threshold,
     severity |-> severity, timestamp |-> data.nrows, server_name |-> server_name,
     message |-> <<metric_name, value, threshold>>]

ThresholdRule(name, metric, threshold, severity, time_percent) ==
    [name |-> name, metric |-> metric, threshold |-> threshold, severity |-> severity,
     time_percent |-> time_percent]

\* overload_rules without the cpu rule.
overload_rules_memory_only(th) ==
    << ThresholdRule("high_memory_usage", MEMORY_USAGE, th.memory_overload, "critical",
                     time_percent_overload) >>

overload_rules(th) ==
    << ThresholdRule("high_cpu_usage", CPU_USAGE, th.cpu_overload, "critical",
                     time_percent_overload),
       ThresholdRule("high_memory_usage", MEMORY_USAGE, th.memory_overload, "critical",
                     time_percent_overload) >>

\* idle_rules with the network rule reading the raw Mbps column.
idle_rules_raw_network(th) ==
    << ThresholdRule("low_cpu_usage", CPU_USAGE, th.cpu_idle, "warning", time_percent_idle),
       ThresholdRule("low_memory_usage", MEMORY_USAGE, th.memory_idle, "warning",
                     time_percent_idle),
       ThresholdRule("low_network_usage", NETWORK_IN, th.network_idle,
                     "warning", time_percent_idle) >>

idle_rules(th) ==
    << ThresholdRule("low_cpu_usage", CPU_USAGE, th.cpu_idle, "warning", time_percent_idle),
       ThresholdRule("low_memory_usage", MEMORY_USAGE, th.memory_idle, "warning",
                     time_percent_idle),
       ThresholdRule("low_network_usage", "network_usage_percent", th.network_idle,
                     "warning", time_percent_idle) >>

RangeRule(name, metric, min, max) ==
    [name |-> name, metric |-> metric, min |-> min, max |-> max, severity |-> "info"]

normal_rules(th) ==
    << RangeRule("normal_cpu_range", CPU, th.cpu_normal_min, th.cpu_normal_max),
       RangeRule("normal_memory_range", MEMORY_USAGE, th.memory_normal_min,
                 th.memory_normal_max),
       RangeRule("normal_network_range", NET, th.network_normal_min,
                 th.network_normal_max) >>

additional_rules(th) ==
    << ThresholdRule("high_disk_latency", "disk_latency", th.disk_latency, "critical",
                     time_percent_overload) >>

\* One pass of the loops over overload_rules and additional_rules:
\* exceeding_intervals.mean() >= rule['time_percent']
ExceedingAlerts(rule, data, server_name) ==
    IF ~HasColumn(data, rule.metric) THEN <<>>
    ELSE
      LET metric_data == data.columns[rule.metric]
          level == rule.threshold * metric_data.scale
          Above(v) == v > level
      IN  IF 100 * CountGt(metric_data.samples, level)
                >= rule.time_percent * Len(metric_data.samples)
          THEN << AnalyzerAlert(rule.name,
                                SeriesMean(SelectSeq(metric_data.samples, Above),
                                           metric_data.scale),
                                [value |-> rule.threshold], rule.severity, data,
                                server_name) >>
          ELSE <<>>

\* One pass of the loop over idle_rules: below_intervals.mean() >= rule['time_percent']
BelowAlerts(rule, data, server_name) ==
    IF ~HasColumn(data, rule.metric) THEN <<>>
    ELSE
      LET metric_data == data.columns[rule.metric]
          level == rule.threshold * metric_data.scale
          Below(v) == v < level
      IN  IF 100 * CountLt(metric_data.samples, level)
                >= rule.time_percent * Len(metric_data.samples)
          THEN << AnalyzerAlert(rule.name,
                                SeriesMean(SelectSeq(metric_data.samples, Below),
                                           metric_data.scale),
                                [value |-> rule.threshold], rule.severity, data,
                                server_name) >>
          ELSE <<>>

\* One pass of the loop over normal_rules: in_range.all()
InRangeAlerts(rule, data, server_name) ==
    IF ~HasColumn(data, rule.metric) THEN <<>>
    ELSE
      LET metric_data == data.columns[rule.metric]
      IN  IF CountInRange(metric_data.samples, rule.min * metric_data.scale,
                          rule.max * metric_data.scale) = Len(metric_data.samples)
          THEN << AnalyzerAlert(rule.name,
                                SeriesMean(metric_data.samples, metric_data.scale),
                                [min |-> rule.min, max |-> rule.max], rule.severity, data,
                                server_name) >>
          ELSE <<>>

\* for rule in overload_rules / additional_rules
RECURSIVE ExceedingLoop(_, _, _)
ExceedingLoop(rs, data, server_name) ==
    IF rs = <<>> THEN <<>>
    ELSE ExceedingAlerts(Head(rs), data, server_name)
            \o ExceedingLoop(Tail(rs), data, server_name)

\* for rule in idle_rules
RECURSIVE BelowLoop(_, _, _)
BelowLoop(rs, data, server_name) ==
    IF rs = <<>> THEN <<>>
    ELSE BelowAlerts(Head(rs), data, server_name) \o BelowLoop(Tail(rs), data, server_name)

\* for rule in normal_rules
RECURSIVE InRangeLoop(_, _, _)
InRangeLoop(rs, data, server_name) ==
    IF rs = <<>> THEN <<>>
    ELSE InRangeAlerts(Head(rs), data, server_name)
            \o InRangeLoop(Tail(rs), data, server_name)

critical_metrics == {"high_cpu_usage", "high_memory_usage", "high_cpu_ready"}

warning_metrics == {"low_cpu_usage", "low_memory_usage", "low_network_usage"}

\* sum(1 for a in alerts if a.severity == severity and a.metric_name in names)
AlertCount(alerts, severity, names) ==
    Cardinality({i \in 1..Len(alerts) :
                    alerts[i].severity = severity /\ alerts[i].metric_name \in names})

\* alert_analyzer._determine_server_status(alerts, data)
StatusFromAlerts(alerts, data) ==
    IF alerts = <<>> THEN "normal"
    ELSE IF AlertCount(alerts, "critical", critical_metrics) >= 1 THEN "overloaded"
    ELSE IF AlertCount(alerts, "warning", warning_metrics) >= 3 THEN "underloaded"
    ELSE "normal"

\* analyze_server_alerts(server_data, server_name) with the default thresholds and
\* time percents; disk_latency is the random column drawn by the call.
analyze_server_alerts(data, server_name, disk_latency) ==
    IF Empty(data) THEN Returned([status |-> "unknown", alerts |-> <<>>])
    ELSE IF ~HasColumn(data, MEMORY_USAGE) \/ ~HasColumn(data, NETWORK_IN)
    THEN Raised("KeyError")
    ELSE
      LET th == default_thresholds
          prepared == Prepared(data, th, disk_latency)
          alerts == ExceedingLoop(overload_rules(th), prepared, server_name)
                      \o BelowLoop(idle_rules(th), prepared, server_name)
                      \o InRangeLoop(normal_rules(th), prepared, server_name)
                      \o ExceedingLoop(additional_rules(th), prepared, server_name)
      IN  Returned([status |-> StatusFromAlerts(alerts, prepared), alerts |-> alerts])

(***************************************************************************)
(* Frames for analyze_server_alerts: the same samples under the column     *)
(* names cpu_usage / memory_usage / network_in_mbps, the network samples   *)
(* in Mbps on and on both sides of 5% of the 1000 Mbps capacity; and the   *)
(* values numpy may draw for disk_latency, on both sides of 25.            *)
(***************************************************************************)
UsageValues(column) ==
    CASE column = CPU_USAGE -> {10, 85, 90}
      [] column = MEMORY_USAGE -> {10, 25, 90}
      [] column = NETWORK_IN -> {10, 50, 500}

UsageChoices(column, n) ==
    {Absent} \cup {[present |-> TRUE, samples |-> s] : s \in SortedSeqs(UsageValues(column), n)}

UsageFrame(n, c, m, t) ==
    LET choice == [k \in {CPU_USAGE, MEMORY_USAGE, NETWORK_IN} |->
                      IF k = CPU_USAGE THEN c ELSE IF k = MEMORY_USAGE THEN m ELSE t]
    IN  [nrows |-> n,
         columns |-> [k \in {x \in {CPU_USAGE, MEMORY_USAGE, NETWORK_IN} : choice[x].present}
                          |-> choice[k].samples]]

\* server_data is one of these frames.
LoadedUsageFrame ==
    \E n \in 0..MaxRows :
        \E c \in UsageChoices(CPU_USAGE, n), m \in UsageChoices(MEMORY_USAGE, n),
           t \in UsageChoices(NETWORK_IN, n) :
            server_data = UsageFrame(n, c, m, t)

\* One window under both sets of column names: the usage columns repeat the samples
\* of DataFrame(n, c, m, t), the network samples converted from percent of the
\* capacity to Mbps.
InMbps(column) ==
    [present |-> column.present,
     samples |-> [i \in 1..Len(column.samples) |->
                    (column.samples[i] * default_thresholds.network_capacity) \div 100]]

BothFrame(n, c, m, t) ==
    [nrows |-> n,
     columns |-> DataFrame(n, c, m, t).columns @@ UsageFrame(n, c, m, InMbps(t)).columns]

\* server_data is one of these frames.
LoadedBothFrame ==
    \E n \in 0..MaxRows :
        \E c \in ColumnChoices(CPU, n), m \in ColumnChoices(MEM, n), t \in ColumnChoices(NET, n) :
            server_data = BothFrame(n, c, m, t)

LatencyValues == {10, 28}

\* The columns drawn for disk_latency: every sample below 25, or every sample above.
LatencyDraws(n) == {[i \in 1..n |-> v] : v \in LatencyValues}

\* AlertSystem.__init__ and the frame the caller holds; no detector call is made.
AlertInit ==
    /\ rules = get_default_rules
    /\ alerts_history = <<>>
    /\ network_capacity_mbps = 1000
    /\ LoadedFrame
    /\ analysis = NoResult
    /\ alerts_analysis = NoResult
    /\ history_view = NoResult
    /\ returned_alerts = <<>>
    /\ callers = NoCallers
    /\ thresholds = DefaultThresholds
    /\ batch = IdleBatch
    /\ anomalies = NoResult
    /\ realtime = IdleRealtime
    /\ realtime_anomaly = NoResult

\* A detector and the arguments of one batch call; no frame is loaded.
BatchInit ==
    /\ thresholds = DefaultThresholds
    /\ BatchArguments
    /\ anomalies = NoResult
    /\ realtime = IdleRealtime
    /\ realtime_anomaly = NoResult
    /\ rules = get_default_rules
    /\ alerts_history = <<>>
    /\ network_capacity_mbps = 1000
    /\ server_data = NoFrame
    /\ analysis = NoResult
    /\ alerts_analysis = NoResult
    /\ history_view = NoResult
    /\ returned_alerts = <<>>
    /\ callers = NoCallers

\* A detector and the arguments of one realtime call; no frame is loaded.
RealtimeInit ==
    /\ thresholds = DefaultThresholds
    /\ batch = IdleBatch
    /\ anomalies = NoResult
    /\ RealtimeArguments
    /\ realtime_anomaly = NoResult
    /\ rules = get_default_rules
    /\ alerts_history = <<>>
    /\ network_capacity_mbps = 1000
    /\ server_data = NoFrame
    /\ analysis = NoResult
    /\ alerts_analysis = NoResult
    /\ history_view = NoResult
    /\ returned_alerts = <<>>
    /\ callers = NoCallers

\* One series of up to MaxSeries values on three levels as the actual values of a
\* batch call and as the history of a realtime call for the same metric, the current
\* value being the last level and the predicted value that of the batch call.
SharedHistory ==
    \E n \in 0..MaxSeries :
        \E a \in LevelValues, b \in LevelValues, c \in LevelValues, k \in 0..n,
           p \in PredictedValues, m \in DetectorMetrics :
            /\ batch = BatchOf(Levels(a, b, c, k, n), p, n, n, m)
            /\ realtime = [current_value |-> c, historical_values |-> Levels(a, b, c, k, n),
                           predicted_value |-> [given |-> TRUE, value |-> p], metric |-> m]

\* A detector and the arguments of a batch call, of a realtime call, or of both.
DetectorInit ==
    /\ thresholds = DefaultThresholds
    /\ \/ (BatchArguments /\ realtime = IdleRealtime)
       \/ (batch = IdleBatch /\ RealtimeArguments)
       \/ SharedHistory
    /\ anomalies = NoResult
    /\ realtime_anomaly = NoResult
    /\ rules = get_default_rules
    /\ alerts_history = <<>>
    /\ network_capacity_mbps = 1000
    /\ server_data = NoFrame
    /\ analysis = NoResult
    /\ alerts_analysis = NoResult
    /\ history_view = NoResult
    /\ returned_alerts = <<>>
    /\ callers = NoCallers

\* AnomalyDetector.detect_anomalies(actual_values, predicted_values, timestamps, metric)
DetectAnomalies ==
    /\ batch # IdleBatch
    /\ anomalies' = detect_anomalies(thresholds, batch.actual_values,
                                     batch.predicted_values, batch.timestamps, batch.metric)
    /\ UNCHANGED <<thresholds, batch, realtime, realtime_anomaly>>
    /\ UNCHANGED alert_vars

\* AnomalyDetector.detect_realtime_anomaly(current_value, historical_values,
\* predicted_value, metric)
DetectRealtimeAnomaly ==
    /\ realtime # IdleRealtime
    /\ realtime_anomaly' =
          Returned(detect_realtime_anomaly(thresholds, realtime.current_value,
                                           realtime.historical_values,
                                           realtime.predicted_value, realtime.metric))
    /\ UNCHANGED <<thresholds, batch, anomalies, realtime>>
    /\ UNCHANGED alert_vars

BatchNext == DetectAnomalies

RealtimeNext == DetectRealtimeAnomaly

DetectorNext == DetectAnomalies \/ DetectRealtimeAnomaly

SpecBatch == BatchInit /\ [][BatchNext]_vars

SpecRealtime == RealtimeInit /\ [][RealtimeNext]_vars

SpecDetector == DetectorInit /\ [][DetectorNext]_vars


\* AnalyzeServerStatus with the alerts list kept from one call to the next.
AnalyzeServerStatusKeepingAlerts ==
    LET result == AnalysisOf(rules, server_data, ServerName)
        kept == IF analysis = NoResult THEN <<>> ELSE analysis.alerts
    IN  /\ server_data # NoFrame
        /\ Len(alerts_history) + Len(result.alerts) <= MaxHistory
        /\ analysis' = [status |-> result.status, alerts |-> kept \o result.alerts]
        /\ alerts_history' = Appended(alerts_history, result.alerts)
        /\ returned_alerts' = returned_alerts \o result.alerts
        /\ UNCHANGED <<rules, network_capacity_mbps, server_data, alerts_analysis,
                       history_view, callers>>
        /\ UNCHANGED detector_vars

\* AlertSystem.analyze_server_status(server_data, server_name)
AnalyzeServerStatus ==
    LET result == AnalysisOf(rules, server_data, ServerName)
    IN  /\ server_data # NoFrame
        /\ Len(alerts_history) + Len(result.alerts) <= MaxHistory
        /\ analysis' = result
        /\ alerts_history' = Appended(alerts_history, result.alerts)
        /\ returned_alerts' = returned_alerts \o result.alerts
        /\ UNCHANGED <<rules, network_capacity_mbps, server_data, alerts_analysis,
                       history_view, callers>>
        /\ UNCHANGED detector_vars

AlertNext == AnalyzeServerStatus

SpecAlert == AlertInit /\ [][AlertNext]_vars

\* An AlertSystem and a frame with the usage columns alone or with both sets of
\* columns; no detector call is made.
StatusInit ==
    /\ rules = get_default_rules
    /\ alerts_history = <<>>
    /\ network_capacity_mbps = 1000
    /\ (LoadedUsageFrame \/ LoadedBothFrame)
    /\ analysis = NoResult
    /\ alerts_analysis = NoResult
    /\ history_view = NoResult
    /\ returned_alerts = <<>>
    /\ callers = NoCallers
    /\ thresholds = DefaultThresholds
    /\ batch = IdleBatch
    /\ anomalies = NoResult
    /\ realtime = IdleRealtime
    /\ realtime_anomaly = NoResult

\* analyze_server_alerts(server_data, server_name)
AnalyzeServerAlerts ==
    /\ server_data # NoFrame
    /\ \E disk_latency \in LatencyDraws(server_data.nrows) :
          alerts_analysis' = analyze_server_alerts(server_data, ServerName, disk_latency)
    /\ UNCHANGED <<rules, alerts_history, network_capacity_mbps, server_data, analysis,
                   history_view, returned_alerts, callers>>
    /\ UNCHANGED detector_vars

StatusNext == AnalyzeServerStatus \/ AnalyzeServerAlerts

SpecStatus == StatusInit /\ [][StatusNext]_vars

\* One cpu series handed to all three functions: as the only metric column of the
\* frame, as the actual values of a batch call with a constant predicted series, and
\* as the history of a realtime call.
SharedSeries ==
    \E n \in 0..MaxRows :
        \E c \in ColumnChoices(CPU, n) \ {Absent}, p \in PredictedValues, v \in CurrentValues :
            /\ server_data = DataFrame(n, c, Absent, Absent)
            /\ batch = BatchOf(c.samples, p, n, n, CPU)
            /\ realtime = [current_value |-> v, historical_values |-> c.samples,
                           predicted_value |-> NoValue, metric |-> CPU]

\* An AlertSystem, an AnomalyDetector and the caller's arguments: a frame, the
\* arguments of a realtime call, or one series as the argument of all three calls.
CallsInit ==
    /\ rules = get_default_rules
    /\ alerts_history = <<>>
    /\ network_capacity_mbps = 1000
    /\ thresholds = DefaultThresholds
    /\ \/ (LoadedFrame /\ batch = IdleBatch /\ realtime = IdleRealtime)
       \/ (server_data = NoFrame /\ batch = IdleBatch /\ RealtimeArguments)
       \/ SharedSeries
    /\ analysis = NoResult
    /\ alerts_analysis = NoResult
    /\ history_view = NoResult
    /\ returned_alerts = <<>>
    /\ callers = NoCallers
    /\ anomalies = NoResult
    /\ realtime_anomaly = NoResult

CallsNext == AnalyzeServerStatus \/ DetectAnomalies \/ DetectRealtimeAnomaly

SpecCalls == CallsInit /\ [][CallsNext]_vars

(***************************************************************************)
(* The settings of the AlertSystem changed between calls.  The frames hold *)
(* the cpu column alone, or no metric column, in up to MaxWindow rows.     *)
(***************************************************************************)
MaxWindow == 2

\* The configuration is changed while alerts_history holds at most this many entries.
MaxLogged == 2

\* (rule_name, kwargs) of the update_rule calls: the settings page's thresholds and
\* time percentages for rules that exist and for one that does not, a severity, and
\* a keyword that is no attribute of AlertRule.
UpdateArguments ==
    << <<"high_cpu_usage", [time_percentage |-> 50]>>,
       <<"high_cpu_usage", [thresholds |-> [high |-> 10]]>>,
       <<"normal_cpu_range", [severity |-> "warning"]>>,
       <<"normal_cpu_range", [time_percentage |-> 50]>>,
       <<"cpu_ready_time", [thresholds |-> [high |-> 10]]>>,
       <<"low_cpu_usage", [enabled |-> FALSE]>> >>

CapacityValues == {100, 1000}

LimitValues == {0, 2, 100}

\* server_data is a frame of up to MaxWindow rows with no metric column but cpu.
LoadedWindow ==
    \E n \in 0..MaxWindow :
        \E c \in ColumnChoices(CPU, n) : server_data = DataFrame(n, c, Absent, Absent)

ConfigInit ==
    /\ rules = get_default_rules
    /\ alerts_history = <<>>
    /\ network_capacity_mbps = 1000
    /\ LoadedWindow
    /\ analysis = NoResult
    /\ alerts_analysis = NoResult
    /\ history_view = NoResult
    /\ returned_alerts = <<>>
    /\ callers = NoCallers
    /\ thresholds = DefaultThresholds
    /\ batch = IdleBatch
    /\ anomalies = NoResult
    /\ realtime = IdleRealtime
    /\ realtime_anomaly = NoResult

\* UpdateRule emptying alerts_history as it changes the rule.
UpdateRuleClearingHistory ==
    /\ Len(alerts_history) <= MaxLogged
    /\ \E a \in 1..Len(UpdateArguments) :
          rules' = update_rule(rules, UpdateArguments[a][1], UpdateArguments[a][2])
    /\ alerts_history' = <<>>
    /\ UNCHANGED <<network_capacity_mbps, server_data, analysis,
                   alerts_analysis, history_view, returned_alerts, callers>>
    /\ UNCHANGED detector_vars

\* AlertSystem.update_rule(rule_name, **kwargs)
UpdateRule ==
    /\ Len(alerts_history) <= MaxLogged
    /\ \E a \in 1..Len(UpdateArguments) :
          rules' = update_rule(rules, UpdateArguments[a][1], UpdateArguments[a][2])
    /\ UNCHANGED <<alerts_history, network_capacity_mbps, server_data, analysis,
                   alerts_analysis, history_view, returned_alerts, callers>>
    /\ UNCHANGED detector_vars

\* AlertSystem.set_network_capacity(capacity_mbps)
SetNetworkCapacity ==
    /\ Len(alerts_history) <= MaxLogged
    /\ \E capacity_mbps \in CapacityValues : network_capacity_mbps' = capacity_mbps
    /\ UNCHANGED <<rules, alerts_history, server_data, analysis, alerts_analysis,
                   history_view, returned_alerts, callers>>
    /\ UNCHANGED detector_vars

\* AlertSystem.get_alerts_history(limit)
GetAlertsHistory ==
    /\ \E limit \in LimitValues :
          history_view' = Returned([limit |-> limit,
                                    rows |-> get_alerts_history(alerts_history, limit)])
    /\ UNCHANGED <<rules, alerts_history, network_capacity_mbps, server_data, analysis,
                   alerts_analysis, returned_alerts, callers>>
    /\ UNCHANGED detector_vars

ConfigNext == AnalyzeServerStatus \/ UpdateRule \/ SetNetworkCapacity \/ GetAlertsHistory

SpecConfig == ConfigInit /\ [][ConfigNext]_vars

(***************************************************************************)
(* Two analyze_server_status calls in progress at once on the alert_system *)
(* singleton (one per dashboard session thread).  A call reads self.rules  *)
(* and its own frame into locals (alerts, status), then appends its alerts *)
(* to the shared alerts_history one list.append at a time, then returns.   *)
(* callers[c] is call c: its arguments, its position and its locals.       *)
(***************************************************************************)
CallerIds == {1, 2}

ServerNames == {"server-1", "server-2"}

\* The call has not started: its arguments only.
Entering(data, server_name) ==
    [pc |-> "enter", server_data |-> data, server_name |-> server_name,
     alerts |-> <<>>, status |-> "none", next |-> 1, result |-> NoResult]

\* The alert_system singleton and two calls about to start, each on a frame of up to
\* MaxWindow rows with no metric column but cpu.
ConcurrentInit ==
    /\ rules = get_default_rules
    /\ alerts_history = <<>>
    /\ network_capacity_mbps = 1000
    /\ server_data = NoFrame
    /\ analysis = NoResult
    /\ alerts_analysis = NoResult
    /\ history_view = NoResult
    /\ returned_alerts = <<>>
    /\ \E n1, n2 \in 0..MaxWindow :
          \E c1 \in ColumnChoices(CPU, n1), c2 \in ColumnChoices(CPU, n2), name \in ServerNames :
              callers = [c \in CallerIds |->
                            IF c = 1
                            THEN Entering(DataFrame(n1, c1, Absent, Absent), "server-1")
                            ELSE Entering(DataFrame(n2, c2, Absent, Absent), name)]
    /\ thresholds = DefaultThresholds
    /\ batch = IdleBatch
    /\ anomalies = NoResult
    /\ realtime = IdleRealtime
    /\ realtime_anomaly = NoResult

\* Call c runs from its entry to the end of the rule loop and the status
\* determination: it reads self.rules and its own frame and writes locals only.
EnterAnalyze(c) ==
    LET result == AnalysisOf(rules, callers[c].server_data, callers[c].server_name)
    IN  /\ callers[c].pc = "enter"
        /\ callers' = [callers EXCEPT
                          ![c].pc = IF Empty(callers[c].server_data) THEN "return" ELSE "append",
                          ![c].alerts = result.alerts,
                          ![c].status = result.status]
        /\ UNCHANGED <<rules, alerts_history, network_capacity_mbps, server_data, analysis,
                       alerts_analysis, history_view, returned_alerts>>
        /\ UNCHANGED detector_vars

\* One pass of `for alert in alerts: self.alerts_history.append(alert.to_dict())`.
AppendAlert(c) ==
    /\ callers[c].pc = "append"
    /\ callers[c].next <= Len(callers[c].alerts)
    /\ alerts_history' = AppendOne(alerts_history, to_dict(callers[c].alerts[callers[c].next]))
    /\ callers' = [callers EXCEPT ![c].next = @ + 1]
    /\ UNCHANGED <<rules, network_capacity_mbps, server_data, analysis, alerts_analysis,
                   history_view, returned_alerts>>
    /\ UNCHANGED detector_vars

\* The loop is exhausted (or the frame was empty): the call returns its dict.
ReturnAnalysis(c) ==
    /\ \/ callers[c].pc = "return"
       \/ callers[c].pc = "append" /\ callers[c].next > Len(callers[c].alerts)
    /\ callers' = [callers EXCEPT
                      ![c].pc = "done",
                      ![c].result = [status |-> callers[c].status, alerts |-> callers[c].alerts]]
    /\ returned_alerts' = returned_alerts \o callers[c].alerts
    /\ UNCHANGED <<rules, alerts_history, network_capacity_mbps, server_data, analysis,
                   alerts_analysis, history_view>>
    /\ UNCHANGED detector_vars

ConcurrentNext ==
    \E c \in CallerIds : EnterAnalyze(c) \/ AppendAlert(c) \/ ReturnAnalysis(c)

SpecConcurrent == ConcurrentInit /\ [][ConcurrentNext]_vars

(***************************************************************************)
(* Properties of analyze_server_status.  The fractions below are counted   *)
(* directly on the caller's frame.                                         *)
(***************************************************************************)
Called == analysis # NoResult

Present(metric) == metric \in DOMAIN server_data.columns

AllPresent == Present(CPU) /\ Present(MEM) /\ Present(NET)

NonePresent == ~Present(CPU) /\ ~Present(MEM) /\ ~Present(NET)

\* Number of samples of a present metric above / below a level.
NumAbove(metric, level) ==
    Cardinality({i \in 1..server_data.nrows : server_data.columns[metric][i] > level})

NumBelow(metric, level) ==
    Cardinality({i \in 1..server_data.nrows : server_data.columns[metric][i] < level})

\* metric is present and at least pct percent of its samples are above level.
AboveAtLeast(metric, level, pct) ==
    Present(metric) /\ 100 * NumAbove(metric, level) >= pct * server_data.nrows

\* metric is present and at least pct percent of its samples are below level.
BelowAtLeast(metric, level, pct) ==
    Present(metric) /\ 100 * NumBelow(metric, level) >= pct * server_data.nrows

OverloadCondition == AboveAtLeast(CPU, 85, 20) \/ AboveAtLeast(MEM, 80, 20)

IdleCondition ==
    BelowAtLeast(CPU, 15, 80) /\ BelowAtLeast(MEM, 25, 80) /\ BelowAtLeast(NET, 5, 80)

\* C1: on a non-empty frame the status is OVERLOADED exactly when cpu is present with
\* at least 20% of its samples > 85 or memory is present with at least 20% of its
\* samples > 80, the 20% boundary included.
C1_OverloadedIffAtLeast20Percent ==
    (Called /\ ~Empty(server_data)) =>
        (analysis.status = "overloaded" <=> OverloadCondition)

C3_NeverUnderloadedWithMissingMetric ==
    (Called /\ analysis.status = "underloaded") => AllPresent

\* C4: a non-empty frame that meets both the overload condition (at least 20%) and
\* the idle condition (at least 80% each) is classified OVERLOADED, never UNDERLOADED.
C4_OverloadBeforeIdle ==
    (Called /\ ~Empty(server_data) /\ OverloadCondition /\ IdleCondition) =>
        analysis.status = "overloaded"

\* C5: a frame with no rows, or with none of the three metrics present, yields
\* status UNKNOWN and an empty alert list.
C5_NoDataIsUnknown ==
    (Called /\ (Empty(server_data) \/ NonePresent)) =>
        (analysis.status = "unknown" /\ analysis.alerts = <<>>)

(***************************************************************************)
(* Properties of the anomaly detector.  The levels below are the built-in  *)
(* profiles, read off the threshold table of AnomalyDetector.__init__.     *)
(***************************************************************************)
CriticalLevelOf(metric) == IF metric = "memory.usage.average" THEN 90 ELSE 80

\* The positions in the returned list of the records made for 1-based index i.
RecordsFor(i) ==
    {k \in 1..Len(anomalies.value) : anomalies.value[k].timestamp = batch.timestamps[i]}

\* detect_anomalies ran its loop to the end and returned its list.
LoopReturned ==
    /\ anomalies.status = "returned"
    /\ Len(batch.actual_values) = Len(batch.predicted_values)

\* A score lies in [0, 1].
InUnitInterval(score) == score.den > 0 /\ 0 <= score.num /\ score.num <= score.den

\* C6: for every index whose actual value is at or above the critical level of the
\* metric's profile, the returned list holds exactly one record for that index, of
\* type critical_level, severity critical and score 1.0, and so no z_score,
\* prediction_error or rate_of_change record for it.
C6_CriticalShortCircuits ==
    LoopReturned =>
        \A i \in 1..Len(batch.actual_values) :
            batch.actual_values[i] >= CriticalLevelOf(batch.metric) =>
                /\ Cardinality(RecordsFor(i)) = 1
                /\ \A k \in RecordsFor(i) :
                      /\ anomalies.value[k].type = "critical_level"
                      /\ anomalies.value[k].severity = "critical"
                      /\ anomalies.value[k].anomaly_score = One

\* C6 witness: a critical value that also jumps by more than the rate threshold and
\* misses a positive prediction by more than 30% yields its single critical record.
C6_Witness ==
    /\ LoopReturned
    /\ \E i \in 2..Len(batch.actual_values) :
          /\ batch.actual_values[i] >= CriticalLevelOf(batch.metric)
          /\ Abs(batch.actual_values[i] - batch.actual_values[i - 1]) > 20
          /\ batch.predicted_values[i] > 0
          /\ 100 * Abs(batch.actual_values[i] - batch.predicted_values[i])
                > 30 * batch.predicted_values[i]
          /\ Cardinality(RecordsFor(i)) = 1

\* C7: whenever actual_values, predicted_values and timestamps do not all have the
\* same length, detect_anomalies returns an empty list and does not raise.
C7_MismatchReturnsEmpty ==
    (/\ anomalies # NoResult
     /\ \/ Len(batch.actual_values) # Len(batch.predicted_values)
        \/ Len(batch.actual_values) # Len(batch.timestamps))
        => anomalies = Returned(<<>>)

\* C8: every record detect_anomalies returns has anomaly_score in [0, 1] and every
\* record detect_realtime_anomaly returns has score in [0, 1].
C8_ScoresInUnitInterval ==
    /\ anomalies.status = "returned" =>
          \A k \in 1..Len(anomalies.value) : InUnitInterval(anomalies.value[k].anomaly_score)
    /\ (realtime_anomaly.status = "returned" /\ realtime_anomaly.value # None) =>
          InUnitInterval(realtime_anomaly.value.score)

\* C8 witness: a returned prediction_error record whose relative error is above
\* 100%, so that its score is the capped 1.
C8_Witness ==
    /\ anomalies.status = "returned"
    /\ \E k \in 1..Len(anomalies.value) :
          /\ anomalies.value[k].type = "prediction_error"
          /\ Abs(anomalies.value[k].actual - anomalies.value[k].predicted)
                > anomalies.value[k].predicted
          /\ anomalies.value[k].anomaly_score = One

\* C9: with fewer than 10 history values detect_realtime_anomaly returns None, for
\* every current value, predicted value and metric.
C9_ShortHistoryIsNone ==
    (realtime_anomaly.status = "returned" /\ Len(realtime.historical_values) < 10) =>
        realtime_anomaly.value = None

\* C9 witness: nine history values and a current value above every critical level
\* return None.
C9_Witness ==
    /\ realtime_anomaly.status = "returned"
    /\ Len(realtime.historical_values) = 9
    /\ realtime.current_value >= 90
    /\ realtime_anomaly.value = None

CriticalFires == realtime.current_value >= CriticalLevelOf(realtime.metric)

\* std > 0 and |current - mean| / std > 3, mean and std over the entire history:
\* with n values of sum S and sum of squares Q, (n*current - S)^2 > 9 * (n*Q - S^2).
StatisticalFires ==
    LET h == realtime.historical_values
        spread == Len(h) * SeqSumSq(h) - SeqSum(h) * SeqSum(h)
        offset == Len(h) * realtime.current_value - SeqSum(h)
    IN  spread > 0 /\ offset * offset > 9 * spread

PredictionFires ==
    /\ realtime.predicted_value.given
    /\ realtime.predicted_value.value > 0
    /\ 100 * Abs(realtime.current_value - realtime.predicted_value.value)
          > 30 * realtime.predicted_value.value

\* C10: with at least 10 history values detect_realtime_anomaly returns the record of
\* the first check that fires, in the order critical_level, statistical (over the
\* entire history), prediction_error, and None when none of them fires.
C10_FirstMatchWins ==
    (realtime_anomaly.status = "returned" /\ Len(realtime.historical_values) >= 10) =>
        realtime_anomaly.value.type =
            IF CriticalFires THEN "critical_level"
            ELSE IF StatisticalFires THEN "statistical"
            ELSE IF PredictionFires THEN "prediction_error"
            ELSE "none"

\* C10 witness: a history of more than 10 values whose last 10 are all equal, where
\* the statistical check over the entire history and the prediction check both fire
\* and the statistical record is returned.
C10_Witness ==
    /\ realtime_anomaly.status = "returned"
    /\ Len(realtime.historical_values) > 10
    /\ \A i \in 2..Len(realtime.historical_values) :
          realtime.historical_values[i] = realtime.historical_values[2]
    /\ ~CriticalFires /\ StatisticalFires /\ PredictionFires
    /\ realtime_anomaly.value.type = "statistical"

(***************************************************************************)
(* Properties of the two status paths, analyze_server_status and           *)
(* analyze_server_alerts, on one frame.                                    *)
(***************************************************************************)
AlertsCalled == alerts_analysis # NoResult

\* column is present and every one of its samples is above / below level.
AllAbove(column, level) ==
    /\ HasColumn(server_data, column)
    /\ \A i \in 1..server_data.nrows : server_data.columns[column][i] > level

AllBelow(column, level) ==
    /\ HasColumn(server_data, column)
    /\ \A i \in 1..server_data.nrows : server_data.columns[column][i] < level

\* The frame carries the memory and network samples analyze_server_alerts reads.
UsageSamplesPresent ==
    HasColumn(server_data, MEMORY_USAGE) /\ HasColumn(server_data, NETWORK_IN)

\* C11: on a non-empty frame whose cpu samples are all > 85 the status is OVERLOADED,
\* from analyze_server_status (column cpu.usage.average) and from
\* analyze_server_alerts (column cpu_usage), whatever the memory and network samples
\* are; analyze_server_alerts also returns at least one alert.
C11_AllCpuAbove85IsOverloaded ==
    /\ (Called /\ ~Empty(server_data) /\ AllAbove(CPU, 85)) =>
            analysis.status = "overloaded"
    /\ (AlertsCalled /\ ~Empty(server_data) /\ AllAbove(CPU_USAGE, 85)
            /\ UsageSamplesPresent) =>
            /\ alerts_analysis.status = "returned"
            /\ alerts_analysis.value.status = "overloaded"
            /\ alerts_analysis.value.alerts # <<>>

\* C11 witness: both functions have classified a frame whose cpu samples are all 90
\* under both column names while memory and network are idle.
C11_Witness ==
    /\ Called /\ AlertsCalled /\ server_data.nrows = 3
    /\ AllAbove(CPU, 85) /\ AllAbove(CPU_USAGE, 85)
    /\ AllBelow(MEMORY_USAGE, 25) /\ AllBelow(NETWORK_IN, 50)
    /\ analysis.status = "overloaded"
    /\ alerts_analysis.status = "returned"
    /\ alerts_analysis.value.status = "overloaded"

\* Every network_in_mbps sample is below pct percent of the 1000 Mbps capacity.
AllNetworkBelowPercent(pct) ==
    /\ HasColumn(server_data, NETWORK_IN)
    /\ \A i \in 1..server_data.nrows :
          100 * server_data.columns[NETWORK_IN][i] < pct * 1000

\* C12: on a non-empty frame whose every sample has cpu < 15, memory < 25 and network
\* < 5% of the capacity the status is UNDERLOADED, from analyze_server_status and from
\* analyze_server_alerts (network percent = network_in_mbps / capacity * 100);
\* analyze_server_alerts also returns at least one alert.
C12_AllIdleIsUnderloaded ==
    /\ (Called /\ ~Empty(server_data)
            /\ AllBelow(CPU, 15) /\ AllBelow(MEM, 25) /\ AllBelow(NET, 5)) =>
            analysis.status = "underloaded"
    /\ (AlertsCalled /\ ~Empty(server_data)
            /\ AllBelow(CPU_USAGE, 15) /\ AllBelow(MEMORY_USAGE, 25)
            /\ AllNetworkBelowPercent(5)) =>
            /\ alerts_analysis.status = "returned"
            /\ alerts_analysis.value.status = "underloaded"
            /\ alerts_analysis.value.alerts # <<>>

\* C12 witness: both functions have classified UNDERLOADED a frame of four samples
\* that is idle on all three metrics under both column names.
C12_Witness ==
    /\ Called /\ AlertsCalled /\ server_data.nrows = 4
    /\ AllBelow(CPU, 15) /\ AllBelow(MEM, 25) /\ AllBelow(NET, 5)
    /\ AllBelow(CPU_USAGE, 15) /\ AllBelow(MEMORY_USAGE, 25) /\ AllNetworkBelowPercent(5)
    /\ analysis.status = "underloaded"
    /\ alerts_analysis.status = "returned"
    /\ alerts_analysis.value.status = "underloaded"

\* metric is present and every one of its samples lies in [lo, hi].
AllWithin(metric, lo, hi) ==
    /\ HasColumn(server_data, metric)
    /\ \A i \in 1..server_data.nrows :
          server_data.columns[metric][i] >= lo /\ server_data.columns[metric][i] <= hi

\* analyze_server_status returned an INFO alert of the rule called name.
ReturnedInfoAlert(name) ==
    \E i \in 1..Len(analysis.alerts) :
        analysis.alerts[i].rule.name = name /\ analysis.alerts[i].rule.severity = "info"

\* C13: on a non-empty frame whose every sample has cpu.usage.average in [15,85],
\* mem.usage.average in [25,80] and net.usage.average in [6,85], analyze_server_status
\* with the default rules returns NORMAL and its alerts include the three INFO alerts
\* normal_cpu_range, normal_memory_range and normal_network_range.
C13_AllInRangeIsNormal ==
    (Called /\ ~Empty(server_data)
        /\ AllWithin(CPU, 15, 85) /\ AllWithin(MEM, 25, 80) /\ AllWithin(NET, 6, 85)) =>
        /\ analysis.status = "normal"
        /\ ReturnedInfoAlert("normal_cpu_range")
        /\ ReturnedInfoAlert("normal_memory_range")
        /\ ReturnedInfoAlert("normal_network_range")

\* C13 witness: a frame of five samples, cpu at the upper end 85 of its range, memory at
\* the lower end 25, network at 50, classified NORMAL with three alerts.
C13_Witness ==
    /\ Called /\ server_data.nrows = 5
    /\ AllWithin(CPU, 85, 85) /\ AllWithin(MEM, 25, 25) /\ AllWithin(NET, 50, 50)
    /\ analysis.status = "normal"
    /\ Len(analysis.alerts) = 3

ConfigurationAndInputsKept ==
    /\ rules' = rules
    /\ network_capacity_mbps' = network_capacity_mbps
    /\ thresholds' = thresholds
    /\ server_data' = server_data
    /\ batch' = batch
    /\ realtime' = realtime

TypedRecordsFor(j, type) == {k \in RecordsFor(j) : anomalies.value[k].type = type}

\* The 1-based indices whose value is below the critical level of the profile.
BelowCritical ==
    {j \in 1..Len(batch.actual_values) :
        batch.actual_values[j] < CriticalLevelOf(batch.metric)}

\* actual[max(0, i-10) .. i-1] for i = j - 1: the up to 10 samples before position j.
Preceding(j) ==
    [n \in 1..(IF j - 1 < 10 THEN j - 1 ELSE 10) |->
        batch.actual_values[(IF j - 1 < 10 THEN 0 ELSE j - 11) + n]]

\* z > 3.0, the z_score_threshold of both profiles, for z squared = z2.
AboveThree(z2) == z2.num > 9 * z2.den

\* bucket(z): critical for z >= 4, high for z >= 3, medium for z >= 2, else low.
Bucket(z2) ==
    CASE z2.num >= 16 * z2.den -> "critical"
      [] z2.num < 16 * z2.den /\ z2.num >= 9 * z2.den -> "high"
      [] z2.num < 9 * z2.den /\ z2.num >= 4 * z2.den -> "medium"
      [] OTHER -> "low"

\* score = min(z / 5, 1) for z squared = z2.
IsZScoreScore(score, z2) ==
    IF z2.num >= 25 * z2.den THEN score = One
    ELSE score = [num |-> z2.num, den |-> 25 * z2.den, sqrt |-> TRUE]

\* C16: for every index below the critical level, a z_score record is emitted iff
\* i >= 3, the standard deviation of the window of the up to 10 preceding samples
\* (critical ones included) is > 0 and z = |actual[i] - mean| / std is strictly above
\* the z_score_threshold; its severity is critical for z >= 4, high for z >= 3, medium
\* for z >= 2, otherwise low, and its score is min(z / 5, 1).
C16_ZScoreRecordIff ==
    LoopReturned =>
        \A j \in BelowCritical :
            LET z2 == ZScoreSq(batch.actual_values[j], Preceding(j))
                due == j - 1 >= 3 /\ z2.den > 0 /\ AboveThree(z2)
            IN  /\ Cardinality(TypedRecordsFor(j, "z_score")) = (IF due THEN 1 ELSE 0)
                /\ \A k \in TypedRecordsFor(j, "z_score") :
                      /\ anomalies.value[k].severity = Bucket(z2)
                      /\ IsZScoreScore(anomalies.value[k].anomaly_score, z2)

\* C16 witness: a series of 12 samples, 10 then 12 then a last sample of 28; the
\* window of the last sample is the ten samples before it, on both lower levels and
\* without the first sample, and the last sample gets a z_score record.
C16_Witness ==
    /\ LoopReturned /\ Len(batch.actual_values) = 12
    /\ batch.actual_values[1] = 10 /\ batch.actual_values[2] = 10
    /\ batch.actual_values[11] = 12 /\ batch.actual_values[12] = 28
    /\ TypedRecordsFor(12, "z_score") # {}

\* score is min(num / den, 1) for den > 0, without a square root.
IsCappedRatio(score, num, den) ==
    /\ ~score.sqrt /\ score.den > 0
    /\ IF num >= den THEN score.num = score.den ELSE score.num * den = score.den * num

\* detect_anomalies was given timestamps for every index of two series of one length.
WellFormedBatch ==
    /\ Len(batch.actual_values) = Len(batch.predicted_values)
    /\ Len(batch.timestamps) >= Len(batch.actual_values)

\* C17: for every index below the critical level, a prediction_error record is
\* emitted iff predicted[i] > 0 and |actual[i] - predicted[i]| / predicted[i] * 100 >
\* 30, whatever z_score or rate_of_change records the index has; its severity is high
\* when the relative error is > 50 and medium otherwise, its score is
\* min(rel_err / 100, 1).  A zero or negative predicted[i] emits no such record and
\* the call still returns.
C17_PredictionErrorRecordIff ==
    /\ (anomalies # NoResult /\ WellFormedBatch) => anomalies.status = "returned"
    /\ LoopReturned =>
          \A j \in BelowCritical :
              LET error == Abs(batch.actual_values[j] - batch.predicted_values[j])
                  predicted == batch.predicted_values[j]
                  due == predicted > 0 /\ 100 * error > 30 * predicted
              IN  /\ Cardinality(TypedRecordsFor(j, "prediction_error"))
                        = (IF due THEN 1 ELSE 0)
                  /\ \A k \in TypedRecordsFor(j, "prediction_error") :
                        /\ anomalies.value[k].severity =
                              (IF 100 * error > 50 * predicted THEN "high" ELSE "medium")
                        /\ IsCappedRatio(anomalies.value[k].anomaly_score,
                                         100 * error, 100 * predicted)

\* C17 witness: under a predicted series of 30, the last sample 40 of 10, 10, 11, 40
\* has a prediction_error record of severity medium next to its z_score and
\* rate_of_change records, and the first sample has one of severity high.
C17_Witness ==
    /\ LoopReturned /\ batch.actual_values = <<10, 10, 11, 40>>
    /\ batch.predicted_values = <<30, 30, 30, 30>>
    /\ TypedRecordsFor(4, "z_score") # {} /\ TypedRecordsFor(4, "rate_of_change") # {}
    /\ \E k \in TypedRecordsFor(4, "prediction_error") : anomalies.value[k].severity = "medium"
    /\ \E k \in TypedRecordsFor(1, "prediction_error") : anomalies.value[k].severity = "high"

\* The rate_of_change_threshold of the metric's profile.
RateThresholdOf(metric) == IF metric = "memory.usage.average" THEN 15 ELSE 20

\* C18: for every index i > 0 below the critical level, a rate_of_change record is
\* emitted iff |actual[i] - actual[i-1]| is strictly above the profile's
\* rate_of_change_threshold, the predecessor being used even when it was flagged
\* critical; its severity is high when the delta is > 30 and medium otherwise, its
\* score is min(delta / 50, 1).  Index 0 never gets a rate_of_change record.
C18_RateOfChangeRecordIff ==
    LoopReturned =>
        \A j \in BelowCritical :
            LET delta == IF j = 1 THEN 0
                         ELSE Abs(batch.actual_values[j] - batch.actual_values[j - 1])
                due == j > 1 /\ delta > RateThresholdOf(batch.metric)
            IN  /\ Cardinality(TypedRecordsFor(j, "rate_of_change")) = (IF due THEN 1 ELSE 0)
                /\ \A k \in TypedRecordsFor(j, "rate_of_change") :
                      /\ anomalies.value[k].severity = (IF delta > 30 THEN "high" ELSE "medium")
                      /\ IsCappedRatio(anomalies.value[k].anomaly_score, delta, 50)

\* C18 witness: in the series 40, 85, 10, 40 of the cpu profile the sample after the
\* critical 85 gets a rate_of_change record of severity high for its drop of 75, the
\* last sample one of severity medium for its rise of 30, the first sample none.
C18_Witness ==
    /\ LoopReturned /\ batch.actual_values = <<40, 85, 10, 40>>
    /\ batch.metric = "cpu.usage.average"
    /\ TypedRecordsFor(1, "rate_of_change") = {}
    /\ \E k \in TypedRecordsFor(3, "rate_of_change") : anomalies.value[k].severity = "high"
    /\ \E k \in TypedRecordsFor(4, "rate_of_change") : anomalies.value[k].severity = "medium"

(***************************************************************************)
(* Properties of the threshold lookup.                                     *)
(***************************************************************************)
\* What a batch record decides: the index it is for, its type, severity and score.
BatchDecision(record) ==
    [timestamp |-> record.timestamp, type |-> record.type, severity |-> record.severity,
     anomaly_score |-> record.anomaly_score]

BatchDecisions(records) == [k \in 1..Len(records) |-> BatchDecision(records[k])]

\* What a realtime result decides: nothing, or a type, a severity and a score.
RealtimeDecision(result) ==
    IF result = None THEN None
    ELSE [type |-> result.type, severity |-> result.severity, score |-> result.score]

\* The levels of the 'cpu.usage.average' profile.
CpuProfile == [z_score_threshold |-> 3, rate_of_change_threshold |-> 20, critical_level |-> 80]

\* C19: for a metric name that is not a key of the threshold table, detect_anomalies
\* and detect_realtime_anomaly decide as they do for 'cpu.usage.average' on the same
\* numbers - the same types, severities and scores at the same indices, with z-score
\* threshold 3.0, rate-of-change threshold 20 and critical level 80 - and the lookup
\* does not fail.
C19_UnknownMetricUsesCpuProfile ==
    /\ (anomalies # NoResult /\ batch.metric \notin DOMAIN thresholds) =>
          LET for_cpu == detect_anomalies(thresholds, batch.actual_values,
                                          batch.predicted_values, batch.timestamps,
                                          "cpu.usage.average")
          IN  /\ ThresholdsFor(thresholds, batch.metric) = CpuProfile
              /\ WellFormedBatch => anomalies.status = "returned"
              /\ anomalies.status = for_cpu.status
              /\ anomalies.status = "returned" =>
                    BatchDecisions(anomalies.value) = BatchDecisions(for_cpu.value)
    /\ (realtime_anomaly # NoResult /\ realtime.metric \notin DOMAIN thresholds) =>
          LET for_cpu == detect_realtime_anomaly(thresholds, realtime.current_value,
                                                 realtime.historical_values,
                                                 realtime.predicted_value,
                                                 "cpu.usage.average")
          IN  /\ realtime_anomaly.status = "returned"
              /\ RealtimeDecision(realtime_anomaly.value) = RealtimeDecision(for_cpu)

\* C19 witness: both functions have been called for 'disk.latency' on one series of 12
\* samples; the batch call returned records and the realtime call a statistical
\* anomaly.
C19_Witness ==
    /\ anomalies # NoResult /\ realtime_anomaly # NoResult
    /\ batch.metric = "disk.latency" /\ realtime.metric = "disk.latency"
    /\ Len(batch.actual_values) = 12
    /\ anomalies.status = "returned" /\ anomalies.value # <<>>
    /\ realtime_anomaly.value # None /\ realtime_anomaly.value.type = "statistical"

(***************************************************************************)
(* Properties of the threshold rules of analyze_server_status.             *)
(***************************************************************************)
\* The samples of the rule's metric that the rule matches.
MatchedBy(rule) ==
    LET Above(v) == v > rule.thresholds.high
        Below(v) == v < rule.thresholds.low
    IN  IF rule.condition = "gt" THEN SelectSeq(server_data.columns[rule.metric], Above)
        ELSE SelectSeq(server_data.columns[rule.metric], Below)

\* The alerts returned for the rule.
AlertsOf(rule) == {k \in 1..Len(analysis.alerts) : analysis.alerts[k].rule = rule}

\* C20: on a non-empty frame that holds the rule's metric, a 'gt' ('lt') rule gets an
\* alert iff the fraction of samples above (below) its threshold, matched / total, is
\* >= the rule's time_percentage, and the alert's value is the mean of the matched
\* samples; for every number of rows, fewer than 5 included.
C20_ThresholdRuleIffFraction ==
    (Called /\ ~Empty(server_data)) =>
        \A r \in 1..Len(rules) :
            (rules[r].condition \in {"gt", "lt"} /\ HasColumn(server_data, rules[r].metric)) =>
                LET matched == MatchedBy(rules[r])
                    due == 100 * Len(matched) >= rules[r].time_percentage * server_data.nrows
                IN  /\ AlertsOf(rules[r]) # {} <=> due
                    /\ \A k \in AlertsOf(rules[r]) :
                          /\ analysis.alerts[k].value.den > 0
                          /\ analysis.alerts[k].value.num * Len(matched)
                                = SeqSum(matched) * analysis.alerts[k].value.den

(***************************************************************************)
(* Properties of analyze_server_status under changed settings.             *)
(***************************************************************************)
\* The last analyze_server_status call ran under the rules now in force.
Current == Called /\ analysis = AnalysisOf(rules, server_data, ServerName)

\* Number of samples of a present metric within [low, high].
NumWithin(metric, low, high) ==
    Cardinality({i \in 1..server_data.nrows :
                    /\ server_data.columns[metric][i] >= low
                    /\ server_data.columns[metric][i] <= high})

\* C21: on a non-empty frame that holds the rule's metric, a 'range' rule of severity
\* INFO gets an alert iff every sample lies in [low, high], whatever its
\* time_percentage; a 'range' rule of any other severity gets an alert iff the
\* fraction of samples in [low, high] is >= its time_percentage.
C21_RangeRuleIffAllOrFraction ==
    (Current /\ ~Empty(server_data)) =>
        \A r \in 1..Len(rules) :
            (rules[r].condition = "range" /\ HasColumn(server_data, rules[r].metric)) =>
                LET within == NumWithin(rules[r].metric, rules[r].thresholds.low,
                                        rules[r].thresholds.high)
                IN  IF rules[r].severity = "info"
                    THEN AlertsOf(rules[r]) # {} <=> within = server_data.nrows
                    ELSE AlertsOf(rules[r]) # {} <=>
                            100 * within >= rules[r].time_percentage * server_data.nrows

\* The rule list with its k-th rule removed.
WithoutRule(rs, k) == SubSeq(rs, 1, k - 1) \o SubSeq(rs, k + 1, Len(rs))

\* C22: on a non-empty frame a rule whose metric is absent gets no alert, the call
\* returns (a status and an alert list, no error), and the alerts returned are
\* exactly those the rule list without that rule produces.
C22_AbsentMetricRuleIsSkipped ==
    (Called /\ ~Empty(server_data)) =>
        /\ analysis.status \in ServerStatus
        /\ \A k \in 1..Len(rules) :
              ~HasColumn(server_data, rules[k].metric) =>
                  /\ AlertsOf(rules[k]) = {}
                  /\ analysis.alerts = CheckRules(WithoutRule(rules, k), server_data, ServerName)

\* A call on a frame without the memory column that returned alerts of rules placed
\* before and after the memory rules.
C22_Witness ==
    /\ Called /\ ~Empty(server_data)
    /\ ~Present(MEM) /\ Present(CPU) /\ Present(NET)
    /\ \E i, j \in 1..Len(analysis.alerts) :
          /\ analysis.alerts[i].rule.name = "low_cpu_usage"
          /\ analysis.alerts[j].rule.name = "low_network_usage"

(***************************************************************************)
(* Properties of concurrent analyze_server_status calls.                   *)
(***************************************************************************)
\* Number of positions of sequence s that hold e.
Occurrences(s, e) == Cardinality({i \in 1..Len(s) : s[i] = e})

\* The entries a call's alerts make in alerts_history.
EntriesOf(alerts) == [i \in 1..Len(alerts) |-> to_dict(alerts[i])]

AllReturned == \A c \in CallerIds : callers[c].pc = "done"

\* C23: with the rules unchanged, however two concurrent analyze_server_status calls
\* interleave, each returns the status and alert list it returns when run alone, and
\* once both have returned alerts_history holds every alert of both calls, each as
\* often as the calls produced it: none lost, none duplicated.
C23_ConcurrentCallsAsAlone ==
    /\ \A c \in CallerIds :
          callers[c].pc = "done" =>
              callers[c].result =
                  AnalysisOf(rules, callers[c].server_data, callers[c].server_name)
    /\ AllReturned =>
          LET first == EntriesOf(callers[1].result.alerts)
              second == EntriesOf(callers[2].result.alerts)
          IN  /\ Len(alerts_history) = Len(first) + Len(second)
              /\ \A i \in 1..Len(alerts_history) :
                    Occurrences(alerts_history, alerts_history[i])
                        = Occurrences(first, alerts_history[i])
                            + Occurrences(second, alerts_history[i])

\* Both calls have returned and their appends interleaved: an entry of the second
\* call lies between two entries of the first.
C23_Witness ==
    /\ AllReturned
    /\ \E i, j, k \in 1..Len(alerts_history) :
          /\ i < j /\ j < k
          /\ alerts_history[i].server = "server-1"
          /\ alerts_history[j].server = "server-2"
          /\ alerts_history[k].server = "server-1"

(***************************************************************************)
(* The status from the alerts (alert_analyzer) against the status from the *)
(* thresholds (AlertSystem._determine_server_status).                      *)
(***************************************************************************)
\* Both calls returned a status for a non-empty frame that holds cpu, memory and
\* network under the column names of both functions.
BothClassified ==
    /\ Called /\ AlertsCalled /\ ~Empty(server_data)
    /\ AllPresent
    /\ HasColumn(server_data, CPU_USAGE) /\ UsageSamplesPresent
    /\ alerts_analysis.status = "returned"

\* C24: the two status paths disagree on a window: whenever exactly 20% of the cpu
\* samples are > 85 and at most 20% of the memory samples are > 80, the status taken
\* from the alerts (a CRITICAL high_cpu_usage alert fired: >= 20%) is OVERLOADED, the
\* alerts of analyze_server_status hold that CRITICAL alert too, and the status
\* AlertSystem._determine_server_status returns (> 20%) is not OVERLOADED.
C24_BoundaryWindowDisagrees ==
    (/\ BothClassified
     /\ 100 * NumAbove(CPU, 85) = 20 * server_data.nrows
     /\ 100 * NumAbove(MEM, 80) <= 20 * server_data.nrows) =>
        /\ alerts_analysis.value.status = "overloaded"
        /\ \E k \in 1..Len(analysis.alerts) :
              /\ analysis.alerts[k].rule.name = "high_cpu_usage"
              /\ analysis.alerts[k].rule.severity = "critical"
        /\ analysis.status # "overloaded"

\* A window with all three metrics on which the two returned statuses differ.
C24_Witness ==
    /\ BothClassified
    /\ analysis.status \in ServerStatus
    /\ alerts_analysis.value.status # analysis.status
    /\ 100 * NumAbove(CPU, 85) = 20 * server_data.nrows

(***************************************************************************)
(* Properties of the AlertSystem across its operations.                    *)
(***************************************************************************)
\* C25: whatever update_rule and set_network_capacity calls came before, the status
\* analyze_server_status returns for a frame is the status it returns under the
\* default configuration; only the alerts can differ.
C25_StatusIndependentOfConfiguration ==
    Called => analysis.status = AnalysisOf(get_default_rules, server_data, ServerName).status

\* A call made under changed rules and a changed capacity whose alerts are not those
\* of the default configuration.
C25_Witness ==
    /\ Current /\ ~Empty(server_data)
    /\ rules # get_default_rules
    /\ network_capacity_mbps # 1000
    /\ analysis.alerts # AnalysisOf(get_default_rules, server_data, ServerName).alerts
    /\ analysis.status = "normal"

\* C26: every alert returned for a 'gt' or 'lt' rule with time_percentage > 0 is
\* backed by a matching sample: at least one sample of the rule's metric matches, and
\* the alert's value is the mean of the matching samples, never NaN; for frames of
\* every number of rows >= 1.
C26_ThresholdAlertBackedBySample ==
    (Called /\ ~Empty(server_data)) =>
        \A k \in 1..Len(analysis.alerts) :
            LET rule == analysis.alerts[k].rule
                value == analysis.alerts[k].value
            IN  (rule.condition \in {"gt", "lt"} /\ rule.time_percentage > 0) =>
                    /\ Len(MatchedBy(rule)) >= 1
                    /\ value.den > 0
                    /\ value.num * Len(MatchedBy(rule)) = SeqSum(MatchedBy(rule)) * value.den

\* analyze_server_status returned an alert of that rule name and severity.
ReturnedAlert(name, severity) ==
    \E k \in 1..Len(analysis.alerts) :
        analysis.alerts[k].rule.name = name /\ analysis.alerts[k].rule.severity = severity

\* C27: with the default rules and cpu, memory and network present, the status is
\* backed by the alerts returned with it: OVERLOADED comes with a CRITICAL
\* high_cpu_usage or high_memory_usage alert, UNDERLOADED with the three WARNING alerts
\* low_cpu_usage, low_memory_usage and low_network_usage.
C27_StatusBackedByAlerts ==
    (Called /\ AllPresent /\ rules = get_default_rules) =>
        /\ analysis.status = "overloaded" =>
              \/ ReturnedAlert("high_cpu_usage", "critical")
              \/ ReturnedAlert("high_memory_usage", "critical")
        /\ analysis.status = "underloaded" =>
              /\ ReturnedAlert("low_cpu_usage", "warning")
              /\ ReturnedAlert("low_memory_usage", "warning")
              /\ ReturnedAlert("low_network_usage", "warning")

\* An UNDERLOADED frame of five rows in which each metric is idle in exactly four
\* (80%) of them, returned with its three WARNING alerts.
C27_Witness ==
    /\ Called /\ AllPresent /\ server_data.nrows = 5
    /\ NumBelow(CPU, 15) = 4 /\ NumBelow(MEM, 25) = 4 /\ NumBelow(NET, 5) = 4
    /\ analysis.status = "underloaded"
    /\ ReturnedAlert("low_cpu_usage", "warning")
    /\ ReturnedAlert("low_memory_usage", "warning")
    /\ ReturnedAlert("low_network_usage", "warning")

\* s is an initial segment of t.
IsPrefix(s, t) == Len(s) <= Len(t) /\ SubSeq(t, 1, Len(s)) = s

\* C28: alerts_history is append-only.  After any sequence of analyze_server_status,
\* update_rule, set_network_capacity and get_alerts_history calls it is the
\* concatenation, in call order, of the alert lists the analyze_server_status calls
\* returned (each alert as its to_dict entry); no step removes, reorders or rewrites
\* an entry, and a call that returns UNKNOWN appends nothing.
C28_HistoryAppendOnly ==
    /\ [](alerts_history = EntriesOf(returned_alerts))
    /\ []((Called /\ analysis.status = "unknown") => alerts_history = <<>>)
    /\ [][IsPrefix(alerts_history, alerts_history')]_vars

\* Two analyze_server_status calls, the second under a changed high_cpu_usage
\* threshold and a changed capacity, both logged, and the history read back.
C28_Witness ==
    /\ history_view # NoResult
    /\ network_capacity_mbps # 1000
    /\ alerts_history = EntriesOf(returned_alerts)
    /\ \E i, j \in 1..Len(alerts_history) :
          /\ i < j
          /\ alerts_history[i].rule = "high_cpu_usage"
          /\ alerts_history[j].rule = "high_cpu_usage"
          /\ alerts_history[i].threshold = [high |-> 85]
          /\ alerts_history[j].threshold = [high |-> 10]

\* get_alerts_history has returned, and alerts_history is as it was then.
ViewCurrent ==
    /\ history_view # NoResult
    /\ history_view.value.rows = get_alerts_history(alerts_history, history_view.value.limit)

\* C29: for every limit >= 0, get_alerts_history(limit) returns exactly
\* min(limit, len(alerts_history)) entries, the most recently appended ones in their
\* order; limit = 0 returns no entry.
C29_LastLimitEntries ==
    ViewCurrent =>
        LET limit == history_view.value.limit
            rows == history_view.value.rows
            n == Len(alerts_history)
            m == IF limit < n THEN limit ELSE n
        IN  /\ Len(rows) = m
            /\ rows = SubSeq(alerts_history, n - m + 1, n)
            /\ limit = 0 => rows = <<>>

(***************************************************************************)
(* Properties of the z-score records under the built-in profiles.          *)
(***************************************************************************)
\* score > 0.6 for a score [num, den, sqrt] with den > 0.
AboveSixTenths(score) ==
    IF score.sqrt THEN 25 * score.num > 9 * score.den
    ELSE 10 * score.num > 6 * score.den

\* C30: with the built-in profiles, every 'z_score' record of detect_anomalies and
\* every 'statistical' record of detect_realtime_anomaly has severity 'high' or
\* 'critical' and a score strictly above 0.6.
C30_ZScoreRecordsHighAndAboveSixTenths ==
    /\ (anomalies # NoResult /\ anomalies.status = "returned") =>
          \A k \in 1..Len(anomalies.value) :
              anomalies.value[k].type = "z_score" =>
                  /\ anomalies.value[k].severity \in {"high", "critical"}
                  /\ AboveSixTenths(anomalies.value[k].anomaly_score)
    /\ (realtime_anomaly # NoResult /\ realtime_anomaly.value # None
            /\ realtime_anomaly.value.type = "statistical") =>
          /\ realtime_anomaly.value.severity \in {"high", "critical"}
          /\ AboveSixTenths(realtime_anomaly.value.score)

\* Both functions ran on one history: detect_anomalies emitted a 'z_score' record, and
\* detect_realtime_anomaly returned a 'statistical' record of severity 'high' with a
\* score below 1.
C30_Witness ==
    /\ anomalies # NoResult /\ anomalies.status = "returned"
    /\ \E k \in 1..Len(anomalies.value) : anomalies.value[k].type = "z_score"
    /\ realtime_anomaly # NoResult /\ realtime_anomaly.value # None
    /\ realtime_anomaly.value.type = "statistical"
    /\ realtime_anomaly.value.severity = "high"
    /\ realtime_anomaly.value.score # One

====
